---- MODULE Spec2Model ----
(***************************************************************************)
(* A model of the SAP-1 emulator of src/main.py: the command line, the     *)
(* program loader SAP1.load, the fetch/decode/execute loop SAP1.emulate    *)
(* and the instruction handlers of class SAP1.                             *)
(*                                                                         *)
(* Python integers are unbounded, so the registers and the memory cells    *)
(* are Int here; only the arithmetic the code itself writes (% 16, % 256, *)
(* // 16, // 256) narrows them.  Python's // and % are floor division and *)
(* the non-negative remainder for a positive divisor, which is exactly     *)
(* \div and % of the Integers module.                                      *)
(***************************************************************************)
EXTENDS Integers, Sequences, FiniteSets, TLC

\* ------------------------------------------------------------------------
\* Program constants
\* ------------------------------------------------------------------------

\* self.memory = [0] * 16 ; the decoder tuple has 16 entries ; % 16 and // 16
MemSize == 16

\* sum % 256, sum // 256, diff % 256
ByteMod == 256

\* The number of OUT display events after which the model stops following a
\* run (the code prints without limit).
MaxOut == 2

Addr == 0 .. (MemSize - 1)

Byte == 0 .. (ByteMod - 1)

\* SAP1.OPCODES: the mnemonic of each defined opcode; the trace line looks
\* the opcode up in this dictionary.
OPCODES ==
    [op \in (0 .. 8) \cup {15} |->
        CASE op = 0 -> "NOP" [] op = 1 -> "LDA" [] op = 2 -> "ADD"
          [] op = 3 -> "SUB" [] op = 4 -> "STA" [] op = 5 -> "OUT"
          [] op = 6 -> "JMP" [] op = 7 -> "LDI" [] op = 8 -> "JC"
          [] op = 15 -> "HLT"]

\* The decoder tuple with UND in the place of HLT.
decoder_NoHalt ==
    << "NOP", "LDA", "ADD", "SUB", "STA", "OUT", "JMP", "LDI",
       "JC", "UND", "UND", "UND", "UND", "UND", "UND", "UND" >>

\* self.decoder: the tuple of handlers, indexed by opcode (0-based in the
\* source, so entry i of the tuple is decoder[i + 1] here).
decoder ==
    << "NOP", "LDA", "ADD", "SUB", "STA", "OUT", "JMP", "LDI",
       "JC", "UND", "UND", "UND", "UND", "UND", "UND", "HLT" >>

\* Python indexing of a 16-element list or tuple: indices -16..15 are
\* accepted, a negative index i denoting element i + 16; anything else
\* raises IndexError.
IndexOK(i) == i \in (0 - MemSize) .. (MemSize - 1)

\* The 0-based position a valid Python index denotes.
IndexPos(i) == IF i < 0 THEN i + MemSize ELSE i

\* ------------------------------------------------------------------------
\* Program files
\* ------------------------------------------------------------------------

\* A token of a program line, as int(token, 0) sees it: either a Python
\* integer literal (binary, hex or decimal, possibly signed) denoting val,
\* or text that int() rejects with ValueError.
Tok(n) == [int |-> TRUE, val |-> n]

BadTok == [int |-> FALSE, val |-> 0]

\* A line after the comment is removed and the rest is split on white
\* space: the sequence of its tokens (empty for a blank or comment line).
Ln(a, v) == << Tok(a), Tok(v) >>

\* The instruction byte with opcode op and operand x.
Ins(op, x) == op * MemSize + x

\* The example file of the module docstring.
ExampleLines ==
    << << >>,
       Ln(0, 30), Ln(1, 47), Ln(2, 224), Ln(3, 240), Ln(14, 14), Ln(15, 28) >>

\* LDA 14 ; ADD 15 ; JC 5 ; OUT ; HLT ; SUB 14 ; JC 8 ; HLT ; STA 13 ;
\* LDI 3 ; JMP 12 ; - ; OUT ; (data) ; a ; b
CarryLines(a, b) ==
    << Ln(0, Ins(1, 14)), Ln(1, Ins(2, 15)), Ln(2, Ins(8, 5)),
       Ln(3, Ins(5, 0)), Ln(4, Ins(15, 0)), Ln(5, Ins(3, 14)),
       Ln(6, Ins(8, 8)), Ln(7, Ins(15, 0)), Ln(8, Ins(4, 13)),
       Ln(9, Ins(7, 3)), Ln(10, Ins(6, 12)), Ln(12, Ins(5, 0)),
       Ln(14, a), Ln(15, b) >>

\* ADD 15 ; JC 3 ; JMP 0 ; HLT with the step in cell 15: counts A upwards
\* until the addition overflows.
CountLines(step) ==
    << Ln(0, Ins(2, 15)), Ln(1, Ins(8, 3)), Ln(2, Ins(6, 0)),
       Ln(3, Ins(15, 0)), Ln(15, step) >>

\* LDA 14 ; <ir> with a in cell 14 and m in cell 15: the program that brings
\* the machine to "A = a, about to execute ir".
ProbeLines(ir, a, m) ==
    << Ln(0, Ins(1, 14)), Ln(1, ir), Ln(14, a), Ln(15, m) >>

\* LDA 14 ; <ir1> ; <ir2> with a in cell 14 and m in cell 15.
Probe2Lines(ir1, ir2, a, m) ==
    << Ln(0, Ins(1, 14)), Ln(1, ir1), Ln(2, ir2), Ln(14, a), Ln(15, m) >>

\* Files whose later lines are malformed or out of range.
BrokenLines ==
    { << Ln(0, 240), << BadTok, Tok(1) >> >>,
      << Ln(0, 240), << Tok(1), BadTok >> >>,
      << Ln(0, 240), << Tok(1) >> >>,
      << Ln(0, 240), << Tok(1), Tok(2), Tok(3) >> >>,
      << Ln(0, 240), Ln(16, 1) >>,
      << Ln(0, 240), Ln(-17, 1) >>,
      << Ln(16, 1), Ln(0, 240) >>,
      << << BadTok, BadTok >> >> }

\* The addresses and values the one-line files are drawn from.
AddrTokens == { -17, -16, -1, 0, 1, 15, 16 }

ValueTokens ==
    { Ins(op, x) : op \in 0 .. 15, x \in {0, 1, 15} }
      \cup { -257, -256, -100, -16, -1, 256, 300, 511 }

\* An existing file with the given lines, and a file name nothing exists
\* under: open(filename) raises FileNotFoundError for it.
File(lines) == [exists |-> TRUE, lines |-> lines]

NoFile == [exists |-> FALSE, lines |-> << >>]

ExampleFile == File(ExampleLines)

EmptyFile == File(<< >>)

\* The program files the command line may name.
Files ==
    { ExampleFile, EmptyFile, NoFile }
      \cup { File(CarryLines(p[1], p[2])) :
                p \in { <<250, 10>>, <<5, 10>>, <<10, 5>>, <<255, 255>>,
                        <<300, 300>> } }
      \cup { File(CountLines(s)) : s \in {1, 3, 128} }
      \cup { File(ProbeLines(ir, 250, 10)) :
                ir \in { Ins(op, 15) : op \in 0 .. 15 } }
      \cup { File(Probe2Lines(Ins(2, 15), Ins(op, 4), p[1], p[2])) :
                op \in 0 .. 15, p \in { <<250, 10>>, <<5, 10>> } }
      \cup { File(l) : l \in BrokenLines }
      \cup { File(<< Ln(a, v) >>) : a \in AddrTokens, v \in ValueTokens }

\* ------------------------------------------------------------------------
\* SAP1.load
\* ------------------------------------------------------------------------

\* The loop of SAP1.load over the lines left to read, from memory mem: the
\* memory when the loop ends and the exception that ended it ("" when the
\* file was read to its end).  A line with no token is skipped; a line that
\* does not split into exactly two tokens, or a token int() rejects, raises
\* ValueError; an address that is no index of the list raises IndexError.
\* The value is stored as parsed.
RECURSIVE LoadFrom(_, _)
LoadFrom(mem, lines) ==
    IF lines = << >> THEN [memory |-> mem, error |-> ""]
    ELSE LET line == Head(lines) IN
         IF Len(line) = 0 THEN LoadFrom(mem, Tail(lines))
         ELSE IF Len(line) # 2 THEN [memory |-> mem, error |-> "ValueError"]
         ELSE IF ~ line[2].int \/ ~ line[1].int
              THEN [memory |-> mem, error |-> "ValueError"]
         ELSE IF ~ IndexOK(line[1].val)
              THEN [memory |-> mem, error |-> "IndexError"]
         ELSE LoadFrom([mem EXCEPT ![IndexPos(line[1].val)] = line[2].val],
                       Tail(lines))

\* ------------------------------------------------------------------------
\* Instruction arithmetic
\* ------------------------------------------------------------------------

\* NextPC with the wrong modulus.
NextPC_Mod15(pc) == (pc + 1) % (MemSize - 1)

\* T2: self.PC_register = (self.PC_register + 1) % 16
NextPC(pc) == (pc + 1) % MemSize

\* opcode = self.IR // 16
Opcode(ir) == ir \div MemSize

\* self.IR % 16
Operand(ir) == ir % MemSize

\* ADD: sum % 256
AddA(a, b) == (a + b) % ByteMod

\* AddCarry with a strict comparison: a sum of exactly 256 sets no carry.
AddCarry_Strict(a, b) == IF a + b > ByteMod THEN 1 ELSE 0

\* ADD: sum // 256
AddCarry(a, b) == (a + b) \div ByteMod

\* SUB: diff % 256
SubA(a, b) == (a - b) % ByteMod

\* SubCarry as a borrow-out flag: 1 when no borrow was needed.
SubCarry_NoBorrow(a, b) == IF a - b < 0 THEN 0 ELSE 1

\* SUB: 1 if diff < 0, else 0
SubCarry(a, b) == IF a - b < 0 THEN 1 ELSE 0

\* JCTarget ignoring the flag, as JMP does.
JCTarget_Always(carry, pc, ir) == Operand(ir)

\* JC: the PC after the instruction
JCTarget(carry, pc, ir) == IF carry = 1 THEN Operand(ir) ELSE pc

\* LDIValue without the nibble mask.
LDIValue_Raw(ir) == ir % ByteMod

\* LDI: the value loaded into A
LDIValue(ir) == Operand(ir)

\* HaltValue as the address the HLT was fetched from.
HaltValue_Address(pc) == (pc - 1) % MemSize

\* HLT: the value the Halt exception's message carries
HaltValue(pc) == pc

\* ------------------------------------------------------------------------
\* State
\* ------------------------------------------------------------------------

VARIABLES
    filename,      \* args.filename, as the file it names
    trace,         \* args.trace
    pause,         \* args.pause
    memory,        \* self.memory
    A_register,    \* self.A_register
    B_register,    \* self.B_register
    PC_register,   \* self.PC_register
    RAM,           \* self.RAM
    MAR,           \* self.MAR
    IR,            \* self.IR
    Carry,         \* self.Carry
    status,        \* where main() is: "init", "fetch", "execute", "pause",
                   \* or how it ended: "halted", "faulted", "loaderror",
                   \* "crashed" (an exception nothing catches)
    error,         \* the exception behind "loaderror" and "crashed"
    report,        \* the value carried by the Halt or InvalidInstruction
                   \* message that emulate prints, << >> before that
    out            \* the values displayed by OUT so far

vars ==
    << filename, trace, pause, memory, A_register, B_register, PC_register,
       RAM, MAR, IR, Carry, status, error, report, out >>

args == << filename, trace, pause >>

registers == << A_register, B_register, PC_register, RAM, MAR, IR, Carry >>

\* The machine and what it has printed.
machine == << memory, registers, report, out >>

\* main() up to "computer = SAP1()": the arguments are parsed and the
\* machine is constructed with all registers and memory locations 0.
Init ==
    /\ filename \in Files
    /\ trace \in BOOLEAN
    /\ pause \in BOOLEAN
    /\ memory = [a \in Addr |-> 0]
    /\ A_register = 0
    /\ B_register = 0
    /\ PC_register = 0
    /\ RAM = 0
    /\ MAR = 0
    /\ IR = 0
    /\ Carry = 0
    /\ status = "init"
    /\ error = ""
    /\ report = << >>
    /\ out = << >>

\* computer.load(args.filename) in main(), with main's handlers: a missing
\* file and a ValueError are reported and main returns; an IndexError is
\* caught by nothing.  When the load succeeds, emulate is entered.
Load ==
    /\ status = "init"
    /\ IF ~ filename.exists
       THEN /\ status' = "loaderror"
            /\ error' = "FileNotFoundError"
            /\ UNCHANGED memory
       ELSE LET r == LoadFrom(memory, filename.lines) IN
            /\ memory' = r.memory
            /\ error' = r.error
            /\ status' = CASE r.error = "" -> "fetch"
                           [] r.error = "ValueError" -> "loaderror"
                           [] OTHER -> "crashed"
    /\ UNCHANGED << args, registers, report, out >>

\* The fetch phase of a cycle: T0, T1, T2.
Fetch ==
    /\ status = "fetch"
    /\ MAR' = PC_register
    /\ IR' = memory[MAR']
    /\ PC_register' = NextPC(PC_register)
    /\ status' = "execute"
    /\ UNCHANGED << args, memory, A_register, B_register, RAM, Carry,
                    error, report, out >>

\* With --trace the opcode's name is looked up in OPCODES before the
\* handler is called: an opcode that is no key raises KeyError, which
\* neither emulate nor main catches.
TraceKeyError ==
    /\ status = "execute"
    /\ trace
    /\ Opcode(IR) \notin DOMAIN OPCODES
    /\ status' = "crashed"
    /\ error' = "KeyError"
    /\ UNCHANGED << args, memory, registers, report, out >>

\* self.decoder[opcode] with an opcode that is no index of the tuple (an IR
\* outside -256..255) raises IndexError, which nothing catches.
DecoderIndexError ==
    /\ status = "execute"
    /\ trace => Opcode(IR) \in DOMAIN OPCODES
    /\ ~ IndexOK(Opcode(IR))
    /\ status' = "crashed"
    /\ error' = "IndexError"
    /\ UNCHANGED << args, memory, registers, report, out >>

\* The decode step reaches the handler named h: the trace lookup (if any)
\* succeeds and the decoder tuple holds h at the opcode.
Dispatch(h) ==
    /\ status = "execute"
    /\ trace => Opcode(IR) \in DOMAIN OPCODES
    /\ IndexOK(Opcode(IR))
    /\ decoder[IndexPos(Opcode(IR)) + 1] = h

\* Returned with the pause taken or not whatever the flag says.
Returned_Either == status' \in {"pause", "fetch"}

\* After a handler returns: the optional trace of the state, the optional
\* pause, and the next iteration of the loop.
Returned == status' = IF pause THEN "pause" ELSE "fetch"

NOP ==
    /\ Dispatch("NOP")
    /\ Returned
    /\ UNCHANGED << args, memory, registers, error, report, out >>

LDA ==
    /\ Dispatch("LDA")
    /\ MAR' = Operand(IR)
    /\ A_register' = memory[MAR']
    /\ Returned
    /\ UNCHANGED << args, memory, B_register, PC_register, RAM, IR, Carry,
                    error, report, out >>

\* ADD taking its operand straight from memory, without loading B.
ADD_KeepB ==
    /\ Dispatch("ADD")
    /\ A_register' = AddA(A_register, memory[Operand(IR)])
    /\ Carry' = AddCarry(A_register, memory[Operand(IR)])
    /\ Returned
    /\ UNCHANGED << args, memory, B_register, PC_register, RAM, MAR, IR,
                    error, report, out >>

ADD ==
    /\ Dispatch("ADD")
    /\ B_register' = memory[Operand(IR)]
    /\ A_register' = AddA(A_register, B_register')
    /\ Carry' = AddCarry(A_register, B_register')
    /\ Returned
    /\ UNCHANGED << args, memory, PC_register, RAM, MAR, IR,
                    error, report, out >>

SUB ==
    /\ Dispatch("SUB")
    /\ B_register' = memory[Operand(IR)]
    /\ A_register' = SubA(A_register, B_register')
    /\ Carry' = SubCarry(A_register, B_register')
    /\ Returned
    /\ UNCHANGED << args, memory, PC_register, RAM, MAR, IR,
                    error, report, out >>

\* STA storing B instead of A.
STA_StoresB ==
    /\ Dispatch("STA")
    /\ memory' = [memory EXCEPT ![Operand(IR)] = B_register]
    /\ Returned
    /\ UNCHANGED << args, registers, error, report, out >>

STA ==
    /\ Dispatch("STA")
    /\ memory' = [memory EXCEPT ![Operand(IR)] = A_register]
    /\ Returned
    /\ UNCHANGED << args, registers, error, report, out >>

JMP ==
    /\ Dispatch("JMP")
    /\ PC_register' = Operand(IR)
    /\ Returned
    /\ UNCHANGED << args, memory, A_register, B_register, RAM, MAR, IR,
                    Carry, error, report, out >>

LDI ==
    /\ Dispatch("LDI")
    /\ A_register' = LDIValue(IR)
    /\ Returned
    /\ UNCHANGED << args, memory, B_register, PC_register, RAM, MAR, IR,
                    Carry, error, report, out >>

JC ==
    /\ Dispatch("JC")
    /\ PC_register' = JCTarget(Carry, PC_register, IR)
    /\ Returned
    /\ UNCHANGED << args, memory, A_register, B_register, RAM, MAR, IR,
                    Carry, error, report, out >>

\* OUT displaying B instead of A.
OUT_DisplaysB ==
    /\ Dispatch("OUT")
    /\ Len(out) < MaxOut
    /\ out' = Append(out, B_register)
    /\ Returned
    /\ UNCHANGED << args, memory, registers, error, report >>

\* The display event is followed only while fewer than MaxOut were emitted.
OUT ==
    /\ Dispatch("OUT")
    /\ Len(out) < MaxOut
    /\ out' = Append(out, A_register)
    /\ Returned
    /\ UNCHANGED << args, memory, registers, error, report >>

\* raise Halt(...), caught in emulate, which prints the message.
HLT ==
    /\ Dispatch("HLT")
    /\ status' = "halted"
    /\ report' = << HaltValue(PC_register) >>
    /\ UNCHANGED << args, memory, registers, error, out >>

\* raise InvalidInstruction(...), caught in emulate, which prints the message.
UND ==
    /\ Dispatch("UND")
    /\ status' = "faulted"
    /\ report' = << IR >>
    /\ UNCHANGED << args, memory, registers, error, out >>

\* The execute phase: the handler the decoder selects.
Execute ==
    \/ NOP \/ LDA \/ ADD \/ SUB \/ STA \/ OUT \/ JMP \/ LDI \/ JC
    \/ HLT \/ UND

\* PauseAck stepping the program counter once more.
PauseAck_Bump ==
    /\ status = "pause"
    /\ status' = "fetch"
    /\ PC_register' = NextPC(PC_register)
    /\ UNCHANGED << args, memory, A_register, B_register, RAM, MAR, IR,
                    Carry, error, report, out >>

\* input(...) returns: the user has typed RETURN.
PauseAck ==
    /\ status = "pause"
    /\ status' = "fetch"
    /\ UNCHANGED << args, memory, registers, error, report, out >>

Next ==
    \/ Load
    \/ Fetch
    \/ TraceKeyError
    \/ DecoderIndexError
    \/ Execute
    \/ PauseAck

Spec == Init /\ [][Next]_vars

\* ------------------------------------------------------------------------
\* The machine on entry to the execute phase
\* ------------------------------------------------------------------------

\* The operands the probe programs are run with.
ProbePairs ==
    { <<250, 10>>, <<5, 10>>, <<10, 5>>, <<0, 0>>, <<255, 1>>, <<128, 128>> }

\* The state of a run of file f (read without error) that is about to
\* execute the instruction ir it fetched from address mar.
Probed(f, t, p, a, b, c, mar, ir) ==
    /\ filename = f
    /\ trace = t
    /\ pause = p
    /\ memory = LoadFrom([x \in Addr |-> 0], f.lines).memory
    /\ A_register = a
    /\ B_register = b
    /\ PC_register = NextPC(mar)
    /\ RAM = 0
    /\ MAR = mar
    /\ IR = ir
    /\ Carry = c
    /\ status = "execute"
    /\ error = ""
    /\ report = << >>
    /\ out = << >>

\* The states in which runs of the probe programs enter the execute phase of
\* their last instruction: after LDA 14, every A and every memory[15] before
\* ADD 15 and SUB 15; after LDA 14 ; ADD 15 or LDA 14 ; SUB 15, every
\* instruction byte.
ExecInit ==
    \/ \E ir \in { Ins(2, 15), Ins(3, 15) }, a \in Byte, m \in Byte :
          Probed(File(ProbeLines(ir, a, m)), FALSE, FALSE, a, 0, 0, 1, ir)
    \/ \E q \in ProbePairs, ir \in Byte, t \in BOOLEAN, p \in BOOLEAN :
          \/ Probed(File(Probe2Lines(Ins(2, 15), ir, q[1], q[2])), t, p,
                    AddA(q[1], q[2]), q[2], AddCarry(q[1], q[2]), 2, ir)
          \/ Probed(File(Probe2Lines(Ins(3, 15), ir, q[1], q[2])), t, p,
                    SubA(q[1], q[2]), q[2], SubCarry(q[1], q[2]), 2, ir)

\* One execute phase from each of these states.
SpecExec == ExecInit /\ [][Execute]_vars

\* ------------------------------------------------------------------------
\* Properties
\* ------------------------------------------------------------------------

\* The cycle of the instruction in IR is over.
CycleOver == status \in {"fetch", "pause", "halted", "faulted", "crashed"}

\* C1: in every run mode, once the cycle of a fetched IR whose opcode
\* nibble is in 9..14 is over, the run has ended in the fault condition
\* and the fault carries that IR byte.
C1_UndefinedFaults ==
    (CycleOver /\ Opcode(IR) \in 9 .. 14)
        => (status = "faulted" /\ report = << IR >>)

\* C2: the run of the documented example file never faults, crashes or
\* fails to load, displays nothing but a single 42, does not stop before
\* it halts, and halts having displayed exactly that 42, reporting PC = 4.
C2_Example ==
    filename = ExampleFile =>
        /\ status \notin {"faulted", "crashed", "loaderror"}
        /\ out \in { << >>, << 42 >> }
        /\ status = "halted" => (out = << 42 >> /\ report = << 4 >>)
        /\ status # "halted" => ENABLED Next

\* The file is a single line "a v" of two integer literals.
OneLine(f) ==
    /\ f.exists
    /\ Len(f.lines) = 1
    /\ Len(f.lines[1]) = 2
    /\ f.lines[1][1].int
    /\ f.lines[1][2].int

\* C3: installing (a, v), for any integers a and v, does not fail and
\* leaves memory[a mod 16] = v mod 256 and every other cell unchanged.
C3_LoadWraps ==
    [][(status = "init" /\ OneLine(filename)) =>
          /\ status' = "fetch"
          /\ memory' = [memory EXCEPT
                          ![filename.lines[1][1].val % 16] =
                              filename.lines[1][2].val % 256]]_vars

\* C4: after any load and any number of cycles, A, B and IR are in 0..255,
\* PC and MAR in 0..15, Carry in {0, 1}, and memory has exactly 16 cells,
\* each in 0..255.
C4_Domains ==
    /\ A_register \in 0 .. 255
    /\ B_register \in 0 .. 255
    /\ IR \in 0 .. 255
    /\ PC_register \in 0 .. 15
    /\ MAR \in 0 .. 15
    /\ Carry \in {0, 1}
    /\ DOMAIN memory = 0 .. 15
    /\ \A a \in DOMAIN memory : memory[a] \in 0 .. 255

\* C5: for A and memory[operand] in 0..255, ADD sets B to memory[operand],
\* A to (A + B) mod 256, which is in 0..255, and Carry to 1 if
\* A + B >= 256 and to 0 otherwise.
C5_Add ==
    [][(ADD /\ A_register \in 0 .. 255 /\ memory[IR % 16] \in 0 .. 255) =>
          /\ B_register' = memory[IR % 16]
          /\ A_register' = (A_register + memory[IR % 16]) % 256
          /\ A_register' \in 0 .. 255
          /\ Carry' = IF A_register + memory[IR % 16] >= 256 THEN 1 ELSE 0
      ]_vars

\* C5 witness: ADD has run with A = 250 and memory[15] = 10, giving A = 4
\* and Carry = 1.
C5_Witness ==
    /\ CycleOver
    /\ IR = Ins(2, 15)
    /\ memory[14] = 250 /\ memory[15] = 10
    /\ A_register = 4 /\ B_register = 10 /\ Carry = 1

\* C6: for A and memory[operand] in 0..255, SUB sets B to memory[operand],
\* A to A - B, or 256 + (A - B) when that is negative, which is in 0..255,
\* and Carry to 1 if A < B before the operation and to 0 otherwise.
C6_Sub ==
    [][(SUB /\ A_register \in 0 .. 255 /\ memory[IR % 16] \in 0 .. 255) =>
          /\ B_register' = memory[IR % 16]
          /\ A_register' = IF A_register < memory[IR % 16]
                           THEN 256 + (A_register - memory[IR % 16])
                           ELSE A_register - memory[IR % 16]
          /\ A_register' \in 0 .. 255
          /\ Carry' = IF A_register < memory[IR % 16] THEN 1 ELSE 0
      ]_vars

\* C6 witness: SUB has run with A = 5 and memory[15] = 10, giving A = 251
\* and Carry = 1.
C6_Witness ==
    /\ CycleOver
    /\ IR = Ins(3, 15)
    /\ memory[14] = 5 /\ memory[15] = 10
    /\ A_register = 251 /\ B_register = 10 /\ Carry = 1

\* C7: JC sets PC to the operand when Carry = 1 and otherwise leaves PC at
\* the incremented value, (fetch address + 1) mod 16; A, B, Carry and
\* memory are unchanged either way.
C7_JC ==
    [][JC =>
          /\ Carry = 1 => PC_register' = IR % 16
          /\ Carry # 1 => /\ PC_register' = PC_register
                          /\ PC_register' = (MAR + 1) % 16
          /\ UNCHANGED << A_register, B_register, Carry, memory >>
      ]_vars

\* C7 witness: a JC has run with Carry = 0 and an operand other than the
\* next address, and did not branch.
C7_Witness ==
    /\ status \in {"fetch", "pause"}
    /\ Opcode(IR) = 8
    /\ Carry = 0
    /\ PC_register = (MAR + 1) % 16
    /\ PC_register # IR % 16

\* C8: every fetch sets MAR to PC, IR to memory[MAR] and PC to
\* (PC + 1) mod 16; PC is always in 0..15; and only a JMP or a JC taken
\* changes PC between two fetches, so the fetch after one at 15 is at 0.
C8_Fetch ==
    /\ [](PC_register \in 0 .. 15)
    /\ [][Fetch =>
            /\ MAR' = PC_register
            /\ IR' = memory[MAR']
            /\ PC_register' = (PC_register + 1) % 16
            /\ PC_register = 15 => PC_register' = 0]_vars
    /\ [][(status # "fetch" /\ ~ JMP /\ ~ (JC /\ Carry = 1)) =>
            PC_register' = PC_register]_vars

\* C8 witness: the LDI 1 stored at address 15 has been executed and the
\* next instruction has been fetched from address 0.
C8_Witness ==
    /\ filename = File(<< Ln(15, Ins(7, 1)) >>)
    /\ status = "execute"
    /\ A_register = 1
    /\ MAR = 0
    /\ PC_register = 1

\* C9: HLT ends the run in the halt condition, which is final and is not
\* the fault condition, and the halt reports the incremented PC:
\* (p + 1) mod 16 for an HLT fetched from address p.
C9_Halt ==
    /\ [][HLT =>
            /\ status' = "halted"
            /\ report' = << PC_register >>
            /\ report' = << (MAR + 1) % 16 >>]_vars
    /\ [][status # "halted"]_vars

\* C9 witness: the HLT stored at address 3 of the counting program has
\* halted the run, reporting PC = 4.
C9_Witness ==
    /\ filename = File(CountLines(1))
    /\ memory[3] = 240
    /\ status = "halted"
    /\ error = ""
    /\ MAR = 3
    /\ report = << 4 >>

\* C10: for an IR in 0x70..0x7F, LDI sets A to IR mod 16, whatever A and
\* memory were, and leaves B, Carry, PC and memory unchanged.
C10_LDI ==
    [][(LDI /\ IR \in 112 .. 127) =>
          /\ A_register' = IR % 16
          /\ A_register' \in 0 .. 15
          /\ UNCHANGED << B_register, Carry, PC_register, memory >>
      ]_vars

\* C10 witness: LDI 15 has run after an addition that left A = 4, B = 10
\* and Carry = 1.
C10_Witness ==
    /\ status \in {"fetch", "pause"}
    /\ IR = 127
    /\ A_register = 15
    /\ memory[14] = 250
    /\ B_register = 10
    /\ Carry = 1
    /\ PC_register = 3


\* Which of the steps of main() can be taken in the current state.
EnabledSteps ==
    << ENABLED Load, ENABLED Fetch, ENABLED TraceKeyError,
       ENABLED DecoderIndexError, ENABLED NOP, ENABLED LDA, ENABLED ADD,
       ENABLED SUB, ENABLED STA, ENABLED OUT, ENABLED JMP, ENABLED LDI,
       ENABLED JC, ENABLED HLT, ENABLED UND, ENABLED PauseAck >>

C12_TraceTransparent ==
    [][(status = "execute" /\ IndexOK(Opcode(IR))) =>
          LET h == decoder[IndexPos(Opcode(IR)) + 1] IN
            /\ h = "HLT" =>
                  (status' = "halted" /\ report' = << PC_register >>)
            /\ h = "UND" => (status' = "faulted" /\ report' = << IR >>)
            /\ h \notin {"HLT", "UND"} => status' \in {"fetch", "pause"}
      ]_vars


\* C13: the pause between cycles changes no register and no memory cell
\* (nor anything printed): it only lets the loop go on to the next fetch;
\* and the run waits there only when the pause flag is set, right after a
\* handler has returned.
C13_Pause ==
    /\ [][status = "pause" =>
            /\ status' = "fetch"
            /\ UNCHANGED << A_register, B_register, PC_register, MAR, IR,
                            Carry, RAM, memory, out, report, error >>]_vars
    /\ [][status' = "pause" => (pause /\ status = "execute")]_vars
    /\ [][(status = "execute" /\ status' = "fetch") => ~ pause]_vars

\* C13 witness: a paused run of the carry program has been acknowledged
\* after its last OUT, with the stored cell and the display intact.
C13_Witness ==
    /\ filename = File(CarryLines(250, 10))
    /\ pause
    /\ status = "fetch"
    /\ PC_register = 13
    /\ memory[13] = 10
    /\ A_register = 3
    /\ out = << 3 >>


\* The load of the file has been attempted and raised an exception.
LoadFailed ==
    /\ status # "init"
    /\ \/ ~ filename.exists
       \/ LoadFrom([a \in Addr |-> 0], filename.lines).error # ""

\* C14: when loading fails (no such file, a malformed line, an
\* out-of-range token), no cycle is ever executed, PC, IR, MAR, A, B and
\* Carry stay 0, and the failure is reported as a load error, which is
\* neither Halt nor InvalidInstruction.
C14_LoadFailure ==
    LoadFailed =>
        /\ PC_register = 0 /\ IR = 0 /\ MAR = 0
        /\ A_register = 0 /\ B_register = 0 /\ Carry = 0
        /\ out = << >> /\ report = << >>
        /\ status = "loaderror"
        /\ error \in {"FileNotFoundError", "ValueError"}


\* C15: during a run only STA changes memory: every step after the load
\* that is not an STA leaves all 16 cells unchanged, and an STA sets
\* memory[IR mod 16] to A, leaves the other 15 cells unchanged, and leaves
\* A, B and Carry unchanged.
C15_StoreOnly ==
    /\ [][(status # "init" /\ ~ STA) => memory' = memory]_vars
    /\ [][STA =>
            /\ memory'[IR % 16] = A_register
            /\ \A a \in 0 .. 15 : a # IR % 16 => memory'[a] = memory[a]
            /\ DOMAIN memory' = 0 .. 15
            /\ UNCHANGED << A_register, B_register, Carry >>]_vars

\* C15 witness: the STA 13 of the carry program has stored A = 10 in cell
\* 13 while B = 250.
C15_Witness ==
    /\ filename = File(CarryLines(250, 10))
    /\ status \in {"fetch", "pause"}
    /\ IR = Ins(4, 13)
    /\ A_register = 10 /\ B_register = 250 /\ Carry = 1
    /\ memory[13] = 10


\* C16: B is written only by ADD and SUB: an ADD or a SUB leaves B equal to
\* memory[IR mod 16] as it was at that cycle, also when A does not change,
\* and every other step (the fetch and every other handler) leaves B
\* unchanged.
C16_BRegister ==
    /\ [][(ADD \/ SUB) => B_register' = memory[IR % 16]]_vars
    /\ [][~ (ADD \/ SUB) => B_register' = B_register]_vars

\* C16 witness: after LDA 14 ; ADD 15 left A = 4 and B = 10, an ADD 4 of
\* the zero in cell 4 has left A = 4 and set B to 0.
C16_Witness ==
    /\ filename = File(Probe2Lines(Ins(2, 15), Ins(2, 4), 250, 10))
    /\ status \in {"fetch", "pause"}
    /\ IR = Ins(2, 4)
    /\ memory[4] = 0
    /\ A_register = 4
    /\ B_register = 0


\* C17: NOP and OUT change no state: both leave A, B, Carry, memory and
\* also PC, MAR and IR (which only the fetch step set) unchanged; NOP
\* displays nothing, and OUT adds exactly one display event, whose value is
\* A; no other step displays anything.
C17_NopOut ==
    /\ [][NOP => UNCHANGED << A_register, B_register, Carry, memory,
                              PC_register, MAR, IR, out >>]_vars
    /\ [][OUT =>
            /\ UNCHANGED << A_register, B_register, Carry, memory,
                            PC_register, MAR, IR >>
            /\ Len(out') = Len(out) + 1
            /\ SubSeq(out', 1, Len(out)) = out
            /\ out'[Len(out')] = A_register]_vars
    /\ [][~ OUT => out' = out]_vars

\* C17 witness: the last OUT of the carry program has displayed A = 3
\* while B = 250, and left the registers as they were.
C17_Witness ==
    /\ filename = File(CarryLines(250, 10))
    /\ status \in {"fetch", "pause"}
    /\ IR = Ins(5, 0)
    /\ MAR = 12 /\ PC_register = 13
    /\ A_register = 3 /\ B_register = 250 /\ Carry = 1
    /\ out = << 3 >>


\* C18: after every cycle MAR is the address of the latest memory access:
\* the operand address IR mod 16 when the instruction executed is LDA, ADD,
\* SUB or STA, and the address the instruction was fetched from otherwise.
C18_MarMirrors ==
    [][Execute =>
          MAR' = IF decoder[IndexPos(Opcode(IR)) + 1]
                       \in {"LDA", "ADD", "SUB", "STA"}
                 THEN IR % 16
                 ELSE MAR]_vars


\* The interpreter always executes its next statement, and every pause
\* prompt is answered.
FairSpec == Spec /\ WF_vars(Next)

\* The file loads without error into cells that are all in 0..255.
ByteImage ==
    /\ filename.exists
    /\ LET r == LoadFrom([a \in Addr |-> 0], filename.lines) IN
         /\ r.error = ""
         /\ \A a \in Addr : r.memory[a] \in 0 .. 255

\* The loop of emulate has been left.
Ended == status \in {"halted", "faulted", "crashed"}

\* C19: for a memory image with all cells in 0..255, the run loop ends
\* exactly in a cycle whose opcode is HLT (then in Halt) or one of 9..14
\* (then in a fault); a cycle of any other opcode goes on to the next
\* fetch, and a run that has not ended can always take its next step (up
\* to the display events followed).  With all-zero memory every instruction
\* is a NOP, the run never ends, and the fetch address goes round
\* 0, 1, ..., 15, 0, ... for ever.
C19_RunsUntilHaltOrFault ==
    /\ [](ByteImage /\ Ended => Opcode(IR) \in 9 .. 15)
    /\ [][(ByteImage /\ status = "execute") =>
            /\ Opcode(IR) = 15 => status' = "halted"
            /\ Opcode(IR) \in 9 .. 14 => status' \in {"faulted", "crashed"}
            /\ Opcode(IR) \in 0 .. 8 => status' \in {"fetch", "pause"}]_vars
    /\ [][(status = "fetch" \/ status = "pause") =>
            status' \notin {"halted", "faulted", "crashed"}]_vars
    /\ []((ByteImage /\ status \in {"fetch", "execute", "pause"}
              /\ ~ (Dispatch("OUT") /\ Len(out) = MaxOut))
            => ENABLED Next)
    /\ [](filename = EmptyFile => (~ Ended /\ IR = 0 /\ A_register = 0))
    /\ [][(filename = EmptyFile /\ status = "execute") =>
            (NOP /\ PC_register = (MAR + 1) % 16)]_vars
    /\ (filename = EmptyFile) =>
            /\ []<>(status = "execute" /\ MAR = 15)
            /\ []<>(status = "execute" /\ MAR = 0)

\* C19 witness: the run on all-zero memory has gone once round the memory
\* and has fetched the NOP at address 0 again after a pause.
C19_Witness ==
    /\ filename = EmptyFile
    /\ pause
    /\ status = "pause"
    /\ IR = 0
    /\ MAR = 15
    /\ PC_register = 0


\* C20: Carry starts at 0 and is written only by ADD and SUB; ADD leaves
\* Carry = 1 exactly when the sum passed 255 and SUB exactly when the
\* difference was negative; JC puts its operand into PC exactly when
\* Carry = 1.  So a JC branches if and only if the latest ADD or SUB
\* overflowed or borrowed, and never before the first of them.
C20_CarryHistory ==
    /\ [](status = "init" => Carry = 0)
    /\ [][~ (ADD \/ SUB) => Carry' = Carry]_vars
    /\ [][ADD => (Carry' = 1 <=> A_register + memory[IR % 16] > 255)]_vars
    /\ [][SUB => (Carry' = 1 <=> A_register - memory[IR % 16] < 0)]_vars
    /\ [][JC => PC_register' = IF Carry = 1 THEN IR % 16
                                            ELSE PC_register]_vars

====
